---------------------------- MODULE Spec2Model ----------------------------
(***************************************************************************)
(* Wire codec of the Olm message envelopes (src/messages/inner.rs):        *)
(* the varint encoder, OlmMessage (construct / payload / append MAC /      *)
(* decode) and PreKeyMessage (construct / decode).                         *)
(*                                                                         *)
(* Bytes are naturals 0..255 and buffers are sequences of bytes.  Rust     *)
(* indexes from 0, sequences from 1: Rust v[i] is v[i + 1] here.           *)
(* A u64 is a function 0..63 -> {0,1}, bit 0 the least significant, so     *)
(* that shifts and truncating casts keep the 64-bit width exactly.         *)
(***************************************************************************)
EXTENDS Integers, Sequences, FiniteSets, TLC

VARIABLES enc,        \* the running `impl Encode for u64` call
          phase,      \* OlmMessage: "none" | "live" | "moved" | "panicked"
          inner,      \* OlmMessage.inner
          origin,     \* how OlmMessage was produced, and from which parts
          appended,   \* the MACs handed to append_mac so far, in call order
          last,       \* the last operation on the OlmMessage and its result
          pkPhase,    \* PreKeyMessage: "none" | "live" | "moved"
          pkInner,    \* PreKeyMessage.inner
          pkOrigin,   \* how the PreKeyMessage was produced
          pkLast      \* the last operation on the PreKeyMessage and its result

vars == <<enc, phase, inner, origin, appended, last,
          pkPhase, pkInner, pkOrigin, pkLast>>
encVars == <<enc>>
olmVars == <<phase, inner, origin, appended, last>>
pkVars == <<pkPhase, pkInner, pkOrigin, pkLast>>

---------------------------------------------------------------------------
(* Program constants *)

MSB == 128
VERSION == 3
RATCHET_TAG == 10
INDEX_TAG == 16
CIPHER_TAG == 34
TRUNCATED_LEN == 8
KEY_LENGTH == 32
U64_BITS == 64

---------------------------------------------------------------------------
(* Bounds of the model *)

MaxCipherLen == 2     \* ciphertexts over CipherAlphabet up to this length
MaxRawLen == 3        \* raw buffers over RawAlphabet up to this length
MaxFragments == 2     \* raw bodies assembled from up to this many fields
MaxAppend == 2        \* append_mac calls on one message
MaxEmbeddedLen == 1   \* embedded messages over CipherAlphabet up to this length

---------------------------------------------------------------------------
(* u64 arithmetic *)

Bits == 0 .. (U64_BITS - 1)

RECURSIVE SumBits(_, _, _)
\* the number whose bits lo..hi-1 are n[from + lo .. from + hi - 1]
SumBits(n, from, width) ==
    IF width = 0 THEN 0
    ELSE (IF from + width - 1 \in Bits THEN n[from + width - 1] ELSE 0) * 2^(width - 1)
         + SumBits(n, from, width - 1)

\* `x as u64` for a usize / u8 / small literal x
FromNat(x) == [b \in Bits |-> IF b < 31 THEN (x \div 2^b) % 2 ELSE 0]

\* `n as u8`
AsU8(n) == SumBits(n, 0, 8)

\* `n >> 7`
Shr7(n) == [b \in Bits |-> IF b + 7 \in Bits THEN n[b + 7] ELSE 0]

\* `n > 0`
GtZero(n) == \E b \in Bits : n[b] = 1

\* `n >= 0x80`
GeMSB(n) == \E b \in 7 .. (U64_BITS - 1) : n[b] = 1

\* `MSB | b` for a byte b
OrMSB(b) == IF b >= MSB THEN b ELSE b + MSB

\* `b & 0x7F` for a byte b
Low7(b) == b % MSB

U64Zero == [b \in Bits |-> 0]
BitsOf(S) == [b \in Bits |-> IF b \in S THEN 1 ELSE 0]

---------------------------------------------------------------------------
(* Varint encoder *)

RECURSIVE required_loop(_, _)
required_loop(v, logcounter) ==
    IF GtZero(v) THEN required_loop(Shr7(v), logcounter + 1) ELSE logcounter

required_encoded_space_unsigned(v) ==
    IF ~GtZero(v) THEN 1 ELSE required_loop(v, 0)

Zeros(k) == [j \in 1 .. k |-> 0]

\* let mut v = Vec::new(); v.resize(required(self), 0); n = self; i = 0
EncodeStart(self) ==
    [self |-> self, v |-> Zeros(required_encoded_space_unsigned(self)),
     n |-> self, i |-> 0, pc |-> "loop"]

\* `n > 0x80`
GtMSB(n) == \/ \E b \in 8 .. (U64_BITS - 1) : n[b] = 1
            \/ n[7] = 1 /\ \E b \in 0 .. 6 : n[b] = 1

\* EncodeStep with the loop test `n > 0x80`
EncodeStepLoopTestOff(st) ==
    IF st.i >= Len(st.v) THEN [st EXCEPT !.pc = "panic"]
    ELSE IF GtMSB(st.n)
         THEN [st EXCEPT !.v[st.i + 1] = OrMSB(AsU8(st.n)),
                         !.i = st.i + 1, !.n = Shr7(st.n)]
         ELSE [st EXCEPT !.v[st.i + 1] = AsU8(st.n), !.pc = "done"]

\* one turn of `while n >= 0x80 { .. }`, or the final `v[i] = n as u8`;
\* an index past the end of v panics
EncodeStep(st) ==
    IF st.i >= Len(st.v) THEN [st EXCEPT !.pc = "panic"]
    ELSE IF GeMSB(st.n)
         THEN [st EXCEPT !.v[st.i + 1] = OrMSB(AsU8(st.n)),
                         !.i = st.i + 1, !.n = Shr7(st.n)]
         ELSE [st EXCEPT !.v[st.i + 1] = AsU8(st.n), !.pc = "done"]

RECURSIVE EncodeRun(_)
EncodeRun(st) == IF st.pc = "loop" THEN EncodeRun(EncodeStep(st)) ELSE st

\* u64::encode(self); usize::encode goes through `self as u64`
encode(self) == EncodeRun(EncodeStart(self)).v
encode_usize(x) == encode(FromNat(x))

---------------------------------------------------------------------------
(* The prost codec behind #[derive(Message)]: InnerMessage::decode,        *)
(* InnerPreKeyMessage::decode / encode / encoded_len.                      *)
(* A read position `pos` is the number of bytes already consumed.          *)

WT_VARINT == 0
WT_64BIT == 1
WT_LEN == 2
WT_START_GROUP == 3
WT_END_GROUP == 4
WT_32BIT == 5
RECURSION_LIMIT == 100
MAX_VARINT_BYTES == 10

Fail == [ok |-> FALSE]

\* value | (low7 << shift), bits shifted past bit 63 are lost
OrShl(value, low7, shift) ==
    [b \in Bits |-> IF b >= shift /\ b < shift + 7
                    THEN (IF (low7 \div 2^(b - shift)) % 2 = 1 THEN 1 ELSE value[b])
                    ELSE value[b]]

RECURSIVE varint_loop(_, _, _, _)

\* after `value |= (byte & 0x7F) << (count * 7)`: the last byte has the high bit
\* clear, and a tenth byte of 2 or more overflows 64 bits
varint_byte(buf, pos, count, byte, value) ==
    IF byte < MSB
    THEN (IF count = MAX_VARINT_BYTES - 1 /\ byte >= 2 THEN Fail
          ELSE [ok |-> TRUE, value |-> value, pos |-> pos + count + 1])
    ELSE varint_loop(buf, pos, count + 1, value)

\* `for count in 0..min(10, buf.remaining())`
varint_loop(buf, pos, count, value) ==
    IF count >= MAX_VARINT_BYTES \/ pos + count >= Len(buf) THEN Fail
    ELSE varint_byte(buf, pos, count, buf[pos + count + 1],
                     OrShl(value, Low7(buf[pos + count + 1]), 7 * count))

\* prost::encoding::decode_varint
decode_varint(buf, pos) == varint_loop(buf, pos, 0, U64Zero)

\* `len > buf.remaining() as u64`
Exceeds(len, remaining) ==
    \/ \E b \in 31 .. (U64_BITS - 1) : len[b] = 1
    \/ SumBits(len, 0, 31) > remaining

\* decode_key on the decoded key varint k: key <= u32::MAX, wire type 0..5, tag >= 1
key_of(k, wire, tag) ==
    IF ~k.ok THEN Fail
    ELSE IF \E b \in 32 .. (U64_BITS - 1) : k.value[b] = 1 THEN Fail
    ELSE IF wire > WT_32BIT THEN Fail
    ELSE IF tag < 1 THEN Fail
    ELSE [ok |-> TRUE, tag |-> tag, wire |-> wire, pos |-> k.pos]

key_split(k) ==
    IF ~k.ok THEN Fail ELSE key_of(k, SumBits(k.value, 0, 3), SumBits(k.value, 3, 29))

\* prost::encoding::decode_key
decode_key(buf, pos) == key_split(decode_varint(buf, pos))

\* the end of skip_field: `if len > buf.remaining() { Err } else { buf.advance(len) }`
advance(buf, after) ==
    IF ~after.ok THEN Fail
    ELSE IF Exceeds(after.len, Len(buf) - after.pos) THEN Fail
    ELSE [ok |-> TRUE, pos |-> after.pos + SumBits(after.len, 0, 31)]

\* the length skip_field takes from a decoded varint v: its value for a
\* length-delimited field, 0 for a varint field
skip_len(v, delimited) ==
    IF ~v.ok THEN Fail
    ELSE [ok |-> TRUE, len |-> IF delimited THEN v.value ELSE U64Zero, pos |-> v.pos]

\* a skipped group g leaves nothing more to advance over
group_len(g) == IF ~g.ok THEN Fail ELSE [ok |-> TRUE, len |-> U64Zero, pos |-> g.pos]

RECURSIVE skip_field(_, _, _, _, _)
RECURSIVE skip_group(_, _, _, _)

group_skipped(tag, buf, depth, s) ==
    IF ~s.ok THEN Fail ELSE skip_group(tag, buf, s.pos, depth)

group_key(tag, buf, depth, k) ==
    IF ~k.ok THEN Fail
    ELSE IF k.wire = WT_END_GROUP
         THEN (IF k.tag # tag THEN Fail ELSE [ok |-> TRUE, pos |-> k.pos])
         ELSE group_skipped(tag, buf, depth,
                            skip_field(k.wire, k.tag, buf, k.pos, depth - 1))

\* the StartGroup arm of skip_field: skip inner fields up to the matching EndGroup
skip_group(tag, buf, pos, depth) == group_key(tag, buf, depth, decode_key(buf, pos))

\* prost::encoding::skip_field (unknown tags); depth is ctx.recurse_count
skip_field(wire, tag, buf, pos, depth) ==
    IF depth = 0 THEN Fail
    ELSE IF wire \in {WT_VARINT, WT_LEN}
         THEN advance(buf, skip_len(decode_varint(buf, pos), wire = WT_LEN))
    ELSE IF wire = WT_32BIT
         THEN advance(buf, [ok |-> TRUE, len |-> FromNat(4), pos |-> pos])
    ELSE IF wire = WT_64BIT
         THEN advance(buf, [ok |-> TRUE, len |-> FromNat(8), pos |-> pos])
    ELSE IF wire = WT_START_GROUP
         THEN advance(buf, group_len(skip_group(tag, buf, pos, depth)))
    ELSE Fail

\* bytes::merge once the length l is decoded: `if len > remaining { Err }`,
\* then the value is replaced by the next len bytes
bytes_take(buf, l) ==
    IF ~l.ok THEN Fail
    ELSE IF Exceeds(l.value, Len(buf) - l.pos) THEN Fail
    ELSE [ok |-> TRUE,
          value |-> SubSeq(buf, l.pos + 1, l.pos + SumBits(l.value, 0, 31)),
          pos |-> l.pos + SumBits(l.value, 0, 31)]

\* prost::encoding::bytes::merge (last occurrence wins)
bytes_merge(wire, buf, pos) ==
    IF wire # WT_LEN THEN Fail ELSE bytes_take(buf, decode_varint(buf, pos))

\* prost::encoding::uint64::merge
uint64_merge(wire, buf, pos) ==
    IF wire # WT_VARINT THEN Fail ELSE decode_varint(buf, pos)

\* the message after a schema field f was merged into it
field_merged(msg, tag, f) ==
    IF ~f.ok THEN Fail
    ELSE [ok |-> TRUE, msg |-> [msg EXCEPT ![tag] = f.value], pos |-> f.pos]

\* the message after an unknown field was skipped
field_skipped(msg, s) ==
    IF ~s.ok THEN Fail ELSE [ok |-> TRUE, msg |-> msg, pos |-> s.pos]

\* the generated merge_field: a schema field by its type, any other tag skipped
merge_field(schema, msg, k, buf) ==
    IF k.tag \in DOMAIN schema
    THEN field_merged(msg, k.tag,
                      IF schema[k.tag] = "bytes" THEN bytes_merge(k.wire, buf, k.pos)
                      ELSE uint64_merge(k.wire, buf, k.pos))
    ELSE field_skipped(msg, skip_field(k.wire, k.tag, buf, k.pos, RECURSION_LIMIT))

RECURSIVE merge(_, _, _, _)

merge_rest(schema, buf, f) ==
    IF ~f.ok THEN Fail ELSE merge(schema, f.msg, buf, f.pos)

merge_key(schema, msg, buf, k) ==
    IF ~k.ok THEN Fail ELSE merge_rest(schema, buf, merge_field(schema, msg, k, buf))

\* Message::merge over a schema (tag -> "bytes" | "uint64"); msg maps tag -> value:
\* `while buf.has_remaining() { decode_key; merge_field }`
merge(schema, msg, buf, pos) ==
    IF pos >= Len(buf) THEN [ok |-> TRUE, msg |-> msg]
    ELSE merge_key(schema, msg, buf, decode_key(buf, pos))

InnerMessageSchema == (1 :> "bytes") @@ (2 :> "uint64") @@ (4 :> "bytes")
InnerPreKeyMessageSchema ==
    (1 :> "bytes") @@ (2 :> "bytes") @@ (3 :> "bytes") @@ (4 :> "bytes")

\* Default::default() of a schema
DefaultOf(schema) ==
    [t \in DOMAIN schema |-> IF schema[t] = "bytes" THEN <<>> ELSE U64Zero]

InnerMessage_of(r) ==
    IF ~r.ok THEN Fail
    ELSE [ok |-> TRUE, ratchet_key |-> r.msg[1], chain_index |-> r.msg[2],
          ciphertext |-> r.msg[4]]

\* InnerMessage::decode(buf)
InnerMessage_decode(buf) ==
    InnerMessage_of(merge(InnerMessageSchema, DefaultOf(InnerMessageSchema), buf, 0))

InnerPreKeyMessage_of(r) ==
    IF ~r.ok THEN Fail
    ELSE [ok |-> TRUE, one_time_key |-> r.msg[1], base_key |-> r.msg[2],
          identity_key |-> r.msg[3], message |-> r.msg[4]]

\* InnerPreKeyMessage::decode(buf)
InnerPreKeyMessage_decode(buf) ==
    InnerPreKeyMessage_of(
        merge(InnerPreKeyMessageSchema, DefaultOf(InnerPreKeyMessageSchema), buf, 0))

\* u64 `value < 0x80`, `value >>= 7`: prost::encoding::encode_varint
RECURSIVE prost_encode_varint(_)
prost_encode_varint(value) ==
    IF ~GeMSB(value) THEN <<AsU8(value)>>
    ELSE <<OrMSB(Low7(AsU8(value)))>> \o prost_encode_varint(Shr7(value))

\* index of the highest set bit of value | 1
HighBit(value) ==
    CHOOSE b \in Bits : /\ (b = 0 \/ value[b] = 1)
                        /\ \A c \in (b + 1) .. (U64_BITS - 1) : value[c] = 0

\* prost::encoding::encoded_len_varint: ((lzcnt(value | 1) ^ 63) * 9 + 73) / 64
encoded_len_varint(value) == (HighBit(value) * 9 + 73) \div 64

\* prost::encoding::bytes::encode: key (tag << 3 | LengthDelimited), length, value
bytes_encode(tag, value) ==
    prost_encode_varint(FromNat(tag * 8 + WT_LEN))
        \o prost_encode_varint(FromNat(Len(value))) \o value

\* prost::encoding::bytes::encoded_len
bytes_encoded_len(tag, value) ==
    encoded_len_varint(FromNat(tag * 8)) + encoded_len_varint(FromNat(Len(value)))
        + Len(value)

\* InnerPreKeyMessage::encode_raw: fields in tag order, empty buffers omitted
InnerPreKeyMessage_encode_raw(m) ==
    (IF m.one_time_key # <<>> THEN bytes_encode(1, m.one_time_key) ELSE <<>>)
    \o (IF m.base_key # <<>> THEN bytes_encode(2, m.base_key) ELSE <<>>)
    \o (IF m.identity_key # <<>> THEN bytes_encode(3, m.identity_key) ELSE <<>>)
    \o (IF m.message # <<>> THEN bytes_encode(4, m.message) ELSE <<>>)

\* InnerPreKeyMessage::encoded_len
InnerPreKeyMessage_encoded_len(m) ==
    (IF m.one_time_key # <<>> THEN bytes_encoded_len(1, m.one_time_key) ELSE 0)
    + (IF m.base_key # <<>> THEN bytes_encoded_len(2, m.base_key) ELSE 0)
    + (IF m.identity_key # <<>> THEN bytes_encoded_len(3, m.identity_key) ELSE 0)
    + (IF m.message # <<>> THEN bytes_encoded_len(4, m.message) ELSE 0)

---------------------------------------------------------------------------
(* Results *)

Ok(value) == [kind |-> "Ok", value |-> value]
Err(name, args) == [kind |-> "Err", value |-> [err |-> name, args |-> args]]
Panic == [kind |-> "Panic", value |-> <<>>]

---------------------------------------------------------------------------
(* OlmMessage *)

\* as_payload_bytes with the slice end one byte late
as_payload_bytes_off_by_one(self) ==
    IF Len(self) < 7 THEN Panic ELSE Ok(SubSeq(self, 1, Len(self) - 7))

\* OlmMessage::as_payload_bytes: `end - 8` underflows (debug build) or the
\* slice end lies past the buffer (release build) when fewer than 8 bytes
\* are held; both builds panic
as_payload_bytes(self) ==
    IF Len(self) < 8 THEN Panic ELSE Ok(SubSeq(self, 1, Len(self) - 8))

\* append_mac_bytes pushing the MAC after the buffer instead of overwriting
append_mac_bytes_extend(self, mac) ==
    IF Len(self) < TRUNCATED_LEN THEN Panic ELSE Ok(self \o mac)

\* OlmMessage::append_mac_bytes, reached from append_mac with mac.truncate():
\* the new value of self.inner, or a panic as in as_payload_bytes
append_mac_bytes(self, mac) ==
    IF Len(self) < TRUNCATED_LEN THEN Panic
    ELSE Ok([j \in 1 .. Len(self) |-> IF j > Len(self) - TRUNCATED_LEN
                                      THEN mac[j - (Len(self) - TRUNCATED_LEN)]
                                      ELSE self[j]])

\* the else branch of OlmMessage::decode, inner and mac_slice in hand
decode_fields(m, mac_slice) ==
    IF ~m.ok THEN Err("ProtoBufError", <<>>)
    ELSE IF Len(m.ratchet_key) # KEY_LENGTH
         THEN Err("InvalidKeyLength", <<KEY_LENGTH, Len(m.ratchet_key)>>)
    ELSE IF Len(mac_slice) # TRUNCATED_LEN
         THEN Err("InvalidMacLength", <<TRUNCATED_LEN, Len(mac_slice)>>)
    ELSE Ok([ratchet_key |-> m.ratchet_key, chain_index |-> m.chain_index,
             ciphertext |-> m.ciphertext, mac |-> mac_slice])

\* OlmMessage::decode with the length floor at the MAC length alone
OlmMessage_decode_low_floor(self) ==
    IF Len(self) = 0 THEN Err("MissingVersion", <<>>)
    ELSE IF self[1] # VERSION THEN Err("InvalidVersion", <<VERSION, self[1]>>)
    ELSE IF Len(self) < TRUNCATED_LEN THEN Err("MessageToShort", <<Len(self)>>)
    ELSE decode_fields(InnerMessage_decode(SubSeq(self, 2, Len(self) - TRUNCATED_LEN)),
                       SubSeq(self, Len(self) - TRUNCATED_LEN + 1, Len(self)))

\* OlmMessage::decode with the length checked before the version
OlmMessage_decode_length_first(self) ==
    IF Len(self) = 0 THEN Err("MissingVersion", <<>>)
    ELSE IF Len(self) < TRUNCATED_LEN + 2 THEN Err("MessageToShort", <<Len(self)>>)
    ELSE IF self[1] # VERSION THEN Err("InvalidVersion", <<VERSION, self[1]>>)
    ELSE decode_fields(InnerMessage_decode(SubSeq(self, 2, Len(self) - TRUNCATED_LEN)),
                       SubSeq(self, Len(self) - TRUNCATED_LEN + 1, Len(self)))

\* OlmMessage::decode
OlmMessage_decode(self) ==
    IF Len(self) = 0 THEN Err("MissingVersion", <<>>)
    ELSE IF self[1] # VERSION THEN Err("InvalidVersion", <<VERSION, self[1]>>)
    ELSE IF Len(self) < TRUNCATED_LEN + 2 THEN Err("MessageToShort", <<Len(self)>>)
    ELSE decode_fields(InnerMessage_decode(SubSeq(self, 2, Len(self) - TRUNCATED_LEN)),
                       SubSeq(self, Len(self) - TRUNCATED_LEN + 1, Len(self)))

\* from_parts_untyped with the ciphertext length written as one raw byte
from_parts_untyped_len_u8(ratchet_key, index, ciphertext) ==
    <<VERSION>> \o <<RATCHET_TAG>> \o encode_usize(Len(ratchet_key)) \o ratchet_key
    \o <<INDEX_TAG>> \o encode(index)
    \o <<CIPHER_TAG>> \o <<Len(ciphertext) % 256>> \o ciphertext
    \o Zeros(TRUNCATED_LEN)

\* from_parts_untyped leaving out a zero chain index, as the generic encoder does
from_parts_untyped_omit_zero(ratchet_key, index, ciphertext) ==
    <<VERSION>> \o <<RATCHET_TAG>> \o encode_usize(Len(ratchet_key)) \o ratchet_key
    \o (IF GtZero(index) THEN <<INDEX_TAG>> \o encode(index) ELSE <<>>)
    \o <<CIPHER_TAG>> \o encode_usize(Len(ciphertext)) \o ciphertext
    \o Zeros(TRUNCATED_LEN)

\* OlmMessage::from_parts_untyped: the value of inner
from_parts_untyped(ratchet_key, index, ciphertext) ==
    <<VERSION>> \o <<RATCHET_TAG>> \o encode_usize(Len(ratchet_key)) \o ratchet_key
    \o <<INDEX_TAG>> \o encode(index)
    \o <<CIPHER_TAG>> \o encode_usize(Len(ciphertext)) \o ciphertext
    \o Zeros(TRUNCATED_LEN)

\* OlmMessage::from_parts (ratchet_key.as_bytes() is 32 bytes)
from_parts(ratchet_key, index, ciphertext) ==
    from_parts_untyped(ratchet_key, index, ciphertext)

---------------------------------------------------------------------------
(* Inputs *)

RECURSIVE SeqsUpTo(_, _)
\* all sequences over S of length 0 .. n
SeqsUpTo(S, n) ==
    IF n = 0 THEN {<<>>}
    ELSE UNION {{s} \cup {Append(s, x) : x \in S} : s \in SeqsUpTo(S, n - 1)}

KeyA == [j \in 1 .. KEY_LENGTH |-> j - 1]
KeyB == [j \in 1 .. KEY_LENGTH |-> 256 - j]
Keys == {KeyA, KeyB}

\* the inputs of test::encode
TestRatchetKey == <<114, 97, 116, 99, 104, 101, 116, 107, 101, 121>>
TestCiphertext == <<99, 105, 112, 104, 101, 114, 116, 101, 120, 116>>
TestMac == <<77, 65, 67, 72, 69, 82, 69, 69>>

UntypedKeys == {TestRatchetKey}

CipherAlphabet == {0, 255}
LongCiphertexts == {[j \in 1 .. n |-> (j * 7) % 256] : n \in {127, 128}}
Ciphertexts == SeqsUpTo(CipherAlphabet, MaxCipherLen) \cup {TestCiphertext}
                   \cup LongCiphertexts

\* chain indexes 0, 1, 127, 128, 2^14, 2^32 + 2^7, 2^63, 2^64 - 1
Indexes == {U64Zero, BitsOf({0}), BitsOf(0 .. 6), BitsOf({7}), BitsOf({14}),
            BitsOf({7, 32}), BitsOf({63}), BitsOf(Bits)}

Macs == {TestMac, [j \in 1 .. TRUNCATED_LEN |-> 255]}

\* buffers handed to From<Vec<u8>>: every short byte string over RawAlphabet,
\* a version byte and a short body followed by 8 more bytes, and version 3
\* bodies assembled from well-formed and malformed fields
RawAlphabet == {0, 3, 10, 16, 128}
RawVersions == {0, VERSION}
Fragments == { <<10, 32>> \o KeyA,      \* field 1, 32 bytes
               <<10, 1, 7>>,            \* field 1, 1 byte
               <<16, 5>>,               \* field 2 = 5
               <<34, 1, 9>>,            \* field 4, 1 byte
               <<24, 1>>,               \* unknown field 3, varint
               <<27, 28>>,              \* unknown field 3, empty group
               <<10, 33>> }             \* field 1, length past the end
RECURSIVE Concats(_, _)
Concats(F, n) ==
    IF n = 0 THEN {<<>>}
    ELSE UNION {{s} \cup {s \o f : f \in F} : s \in Concats(F, n - 1)}
RawInputs ==
    SeqsUpTo(RawAlphabet, MaxRawLen)
    \cup {<<v>> \o body \o TestMac :
              v \in RawVersions, body \in SeqsUpTo(RawAlphabet, MaxRawLen - 1)}
    \cup {<<VERSION>> \o body \o TestMac : body \in Concats(Fragments, MaxFragments)}

---------------------------------------------------------------------------
(* OlmMessage operations as actions *)

NoOrigin == [how |-> "none"]
NoOp == [op |-> "none", arg |-> <<>>, ret |-> [kind |-> "None", value |-> <<>>]]

\* OlmMessage::from_parts(&key, index, ciphertext)
FromParts ==
    /\ phase = "none"
    /\ \E k \in Keys, i \in Indexes, c \in Ciphertexts :
         /\ inner' = from_parts(k, i, c)
         /\ origin' = [how |-> "from_parts", ratchet_key |-> k, index |-> i,
                       ciphertext |-> c]
    /\ phase' = "live"
    /\ UNCHANGED <<appended, last, encVars, pkVars>>

\* OlmMessage::from_parts_untyped(key, index, ciphertext), as test::encode calls it
FromPartsUntyped ==
    /\ phase = "none"
    /\ \E k \in UntypedKeys, i \in Indexes, c \in Ciphertexts :
         /\ inner' = from_parts_untyped(k, i, c)
         /\ origin' = [how |-> "from_parts_untyped", ratchet_key |-> k, index |-> i,
                       ciphertext |-> c]
    /\ phase' = "live"
    /\ UNCHANGED <<appended, last, encVars, pkVars>>

\* OlmMessage::from(bytes)
FromVec ==
    /\ phase = "none"
    /\ \E bytes \in RawInputs :
         /\ inner' = bytes
         /\ origin' = [how |-> "from", bytes |-> bytes]
    /\ phase' = "live"
    /\ UNCHANGED <<appended, last, encVars, pkVars>>

\* message.as_payload_bytes()
AsPayloadBytes ==
    /\ phase = "live"
    /\ \E r \in {as_payload_bytes(inner)} :
         /\ last' = [op |-> "as_payload_bytes", arg |-> <<>>, ret |-> r]
         /\ phase' = IF r.kind = "Panic" THEN "panicked" ELSE "live"
    /\ UNCHANGED <<inner, origin, appended, encVars, pkVars>>

\* message.append_mac(mac), mac.truncate() being the 8 bytes m
AppendMac ==
    /\ phase = "live"
    /\ Len(appended) < MaxAppend
    /\ \E m \in Macs : \E r \in {append_mac_bytes(inner, m)} :
         /\ appended' = Append(appended, m)
         /\ last' = [op |-> "append_mac", arg |-> m,
                     ret |-> IF r.kind = "Panic" THEN Panic ELSE Ok(<<>>)]
         /\ inner' = IF r.kind = "Panic" THEN inner ELSE r.value
         /\ phase' = IF r.kind = "Panic" THEN "panicked" ELSE "live"
    /\ UNCHANGED <<origin, encVars, pkVars>>

\* message.decode()
Decode ==
    /\ phase = "live"
    /\ last' = [op |-> "decode", arg |-> <<>>, ret |-> OlmMessage_decode(inner)]
    /\ UNCHANGED <<phase, inner, origin, appended, encVars, pkVars>>

\* message.into_vec(): the envelope is consumed
IntoVec ==
    /\ phase = "live"
    /\ last' = [op |-> "into_vec", arg |-> <<>>, ret |-> Ok(inner)]
    /\ phase' = "moved"
    /\ UNCHANGED <<inner, origin, appended, encVars, pkVars>>

---------------------------------------------------------------------------
(* PreKeyMessage *)

\* prekey_fields checking the keys in declaration order
prekey_fields_declared_order(m) ==
    IF ~m.ok THEN Err("ProtoBufError", <<>>)
    ELSE IF Len(m.one_time_key) # KEY_LENGTH
         THEN Err("InvalidKeyLength", <<KEY_LENGTH, Len(m.one_time_key)>>)
    ELSE IF Len(m.base_key) # KEY_LENGTH
         THEN Err("InvalidKeyLength", <<KEY_LENGTH, Len(m.base_key)>>)
    ELSE IF Len(m.identity_key) # KEY_LENGTH
         THEN Err("InvalidKeyLength", <<KEY_LENGTH, Len(m.identity_key)>>)
    ELSE Ok(<<m.one_time_key, m.base_key, m.identity_key, m.message>>)

\* the else branch of PreKeyMessage::decode on the decoded body m
prekey_fields(m) ==
    IF ~m.ok THEN Err("ProtoBufError", <<>>)
    ELSE IF Len(m.one_time_key) # KEY_LENGTH
         THEN Err("InvalidKeyLength", <<KEY_LENGTH, Len(m.one_time_key)>>)
    ELSE IF Len(m.identity_key) # KEY_LENGTH
         THEN Err("InvalidKeyLength", <<KEY_LENGTH, Len(m.identity_key)>>)
    ELSE IF Len(m.base_key) # KEY_LENGTH
         THEN Err("InvalidKeyLength", <<KEY_LENGTH, Len(m.base_key)>>)
    ELSE Ok(<<m.one_time_key, m.base_key, m.identity_key, m.message>>)

\* PreKeyMessage::decode
PreKeyMessage_decode(self) ==
    IF Len(self) = 0 THEN Err("MissingVersion", <<>>)
    ELSE IF self[1] # VERSION THEN Err("InvalidVersion", <<VERSION, self[1]>>)
    ELSE prekey_fields(InnerPreKeyMessage_decode(SubSeq(self, 2, Len(self))))

\* `vec![0u8; encoded_len + 1]`, output[0] = VERSION, the body written over
\* output[1..]; Message::encode refuses a buffer shorter than encoded_len
\* (the expect panics) and put_slice panics past the end of the slice
prekey_output(encoded_len, raw) ==
    IF Len(raw) > encoded_len THEN Panic
    ELSE Ok(<<VERSION>> \o [j \in 1 .. encoded_len |-> IF j <= Len(raw) THEN raw[j] ELSE 0])

\* from_parts_untyped_prost with base_key and identity_key stored crosswise
from_parts_untyped_prost_swapped(one_time_key, base_key, identity_key, message) ==
    prekey_output(
        InnerPreKeyMessage_encoded_len(
            [one_time_key |-> one_time_key, base_key |-> identity_key,
             identity_key |-> base_key, message |-> message]),
        InnerPreKeyMessage_encode_raw(
            [one_time_key |-> one_time_key, base_key |-> identity_key,
             identity_key |-> base_key, message |-> message]))

\* PreKeyMessage::from_parts_untyped_prost
from_parts_untyped_prost(one_time_key, base_key, identity_key, message) ==
    prekey_output(
        InnerPreKeyMessage_encoded_len(
            [one_time_key |-> one_time_key, base_key |-> base_key,
             identity_key |-> identity_key, message |-> message]),
        InnerPreKeyMessage_encode_raw(
            [one_time_key |-> one_time_key, base_key |-> base_key,
             identity_key |-> identity_key, message |-> message]))

\* PreKeyMessage::from_parts (each key.as_bytes() is 32 bytes)
PreKeyMessage_from_parts(one_time_key, base_key, identity_key, message) ==
    from_parts_untyped_prost(one_time_key, base_key, identity_key, message)

\* embedded messages: short byte strings and a whole OlmMessage
Embedded == SeqsUpTo(CipherAlphabet, MaxEmbeddedLen)
                \cup {from_parts(KeyB, BitsOf({0}), c) : c \in LongCiphertexts}

\* key fields as a peer may send them: absent, short, one byte off, exact
WireKeys == {<<>>, <<7>>, [j \in 1 .. (KEY_LENGTH - 1) |-> j],
             KeyA, [j \in 1 .. (KEY_LENGTH + 1) |-> 100 + j]}

\* buffers handed to From<Vec<u8>> for PreKeyMessage
PreKeyRawInputs ==
    SeqsUpTo(RawAlphabet, MaxRawLen)
    \cup {<<VERSION>> \o InnerPreKeyMessage_encode_raw(
              [one_time_key |-> k1, base_key |-> k2, identity_key |-> k3, message |-> m])
          : k1 \in WireKeys, k2 \in WireKeys, k3 \in WireKeys,
            m \in SeqsUpTo(CipherAlphabet, MaxEmbeddedLen)}

\* PreKeyMessage::from_parts(&one_time_key, &base_key, &identity_key, message)
PreKeyFromParts ==
    /\ pkPhase = "none"
    /\ \E k1 \in Keys, k2 \in Keys, k3 \in Keys, m \in Embedded :
       \E r \in {PreKeyMessage_from_parts(k1, k2, k3, m)} :
         /\ pkInner' = IF r.kind = "Panic" THEN <<>> ELSE r.value
         /\ pkPhase' = IF r.kind = "Panic" THEN "panicked" ELSE "live"
         /\ pkOrigin' = [how |-> "from_parts", one_time_key |-> k1, base_key |-> k2,
                         identity_key |-> k3, message |-> m]
    /\ UNCHANGED <<pkLast, encVars, olmVars>>

\* PreKeyMessage::from(bytes)
PreKeyFromVec ==
    /\ pkPhase = "none"
    /\ \E bytes \in PreKeyRawInputs :
         /\ pkInner' = bytes
         /\ pkOrigin' = [how |-> "from", bytes |-> bytes]
    /\ pkPhase' = "live"
    /\ UNCHANGED <<pkLast, encVars, olmVars>>

\* message.decode(): takes self by value
PreKeyDecode ==
    /\ pkPhase = "live"
    /\ pkLast' = [op |-> "decode", arg |-> <<>>, ret |-> PreKeyMessage_decode(pkInner)]
    /\ pkPhase' = "moved"
    /\ UNCHANGED <<pkInner, pkOrigin, encVars, olmVars>>

\* message.into_vec()
PreKeyIntoVec ==
    /\ pkPhase = "live"
    /\ pkLast' = [op |-> "into_vec", arg |-> <<>>, ret |-> Ok(pkInner)]
    /\ pkPhase' = "moved"
    /\ UNCHANGED <<pkInner, pkOrigin, encVars, olmVars>>

---------------------------------------------------------------------------
(* The varint encoder, run one loop turn at a time *)

EncIdle == [pc |-> "idle"]

\* 2^k and 2^k - 1 for every k, the values where the encoded length changes
VarintInputs == {BitsOf({k}) : k \in Bits} \cup {BitsOf(0 .. (k - 1)) : k \in 0 .. U64_BITS}
                    \cup {BitsOf({0, k}) : k \in Bits}

\* value.encode() is entered
EncodeCall ==
    /\ enc.pc = "idle"
    /\ \E self \in VarintInputs : enc' = EncodeStart(self)
    /\ UNCHANGED <<olmVars, pkVars>>

\* one turn of the while loop, or the final store
EncodeTurn ==
    /\ enc.pc = "loop"
    /\ enc' = EncodeStep(enc)
    /\ UNCHANGED <<olmVars, pkVars>>

---------------------------------------------------------------------------
(* Specifications *)

Init ==
    /\ enc = EncIdle
    /\ phase = "none" /\ inner = <<>> /\ origin = NoOrigin
    /\ appended = <<>> /\ last = NoOp
    /\ pkPhase = "none" /\ pkInner = <<>> /\ pkOrigin = NoOrigin /\ pkLast = NoOp

NextVarint == EncodeCall \/ EncodeTurn

NextOlm ==
    \/ FromParts \/ FromPartsUntyped \/ FromVec
    \/ AsPayloadBytes \/ AppendMac \/ Decode \/ IntoVec

NextPreKey == PreKeyFromParts \/ PreKeyFromVec \/ PreKeyDecode \/ PreKeyIntoVec

SpecVarint == Init /\ [][NextVarint]_vars
SpecOlm == Init /\ [][NextOlm]_vars
SpecPreKey == Init /\ [][NextPreKey]_vars

---------------------------------------------------------------------------
(* Properties *)

\* number of significant bits of a u64
BitLength(v) == IF GtZero(v) THEN HighBit(v) + 1 ELSE 0

\* max(1, ceil(bitlength / 7))
MinimalLen(v) == IF BitLength(v) = 0 THEN 1 ELSE (BitLength(v) + 6) \div 7

\* the varint of v as the wire format defines it: 7 bits per byte, low group
\* first, high bit set on all bytes but the last
Varint(v) ==
    [j \in 1 .. MinimalLen(v) |->
        SumBits(v, 7 * (j - 1), 7) + (IF j < MinimalLen(v) THEN 128 ELSE 0)]

\* the normal message layout for the parts o, with an all-zero MAC
NormalLayout(o) ==
    <<3, 10>> \o Varint(FromNat(Len(o.ratchet_key))) \o o.ratchet_key
    \o <<16>> \o Varint(o.index)
    \o <<34>> \o Varint(FromNat(Len(o.ciphertext))) \o o.ciphertext
    \o <<0, 0, 0, 0, 0, 0, 0, 0>>

Built == origin.how \in {"from_parts", "from_parts_untyped"}

\* the last 8 bytes of a buffer of 8 bytes or more
Tail8(buf) == SubSeq(buf, Len(buf) - 7, Len(buf))
\* all but the last 8 bytes
Front(buf) == SubSeq(buf, 1, Len(buf) - 8)

(* C1: a message built by from_parts from (k, i, c), given a MAC m by       *)
(* append_mac, decodes to Ok with ratchet_key = k, chain_index = i,         *)
(* ciphertext = c and mac = m.                                              *)
C1_RoundTrip ==
    (origin.how = "from_parts" /\ appended # <<>> /\ last.op = "decode")
        => /\ last.ret.kind = "Ok"
           /\ last.ret.value.ratchet_key = origin.ratchet_key
           /\ last.ret.value.chain_index = origin.index
           /\ last.ret.value.ciphertext = origin.ciphertext
           /\ last.ret.value.mac = appended[Len(appended)]

C1_Witness ==
    /\ origin.how = "from_parts" /\ appended # <<>> /\ last.op = "decode"
    /\ origin.index = BitsOf(Bits) /\ origin.ciphertext = <<>>
    /\ last.ret.kind = "Ok" /\ last.ret.value.mac = TestMac

(* C2: the buffer built by from_parts is exactly 0x03, 0x0A, varint(key     *)
(* length), key, 0x10, varint(chain index), 0x22, varint(ciphertext         *)
(* length), ciphertext, 8 zero bytes; chain index 0 is the two bytes        *)
(* 0x10 0x00, never omitted.                                                *)
C2_Layout ==
    (Built /\ appended = <<>>)
        => /\ inner = NormalLayout(origin)
           /\ origin.index = U64Zero
                => SubSeq(inner, Len(origin.ratchet_key) + 4,
                          Len(origin.ratchet_key) + 5) = <<16, 0>>

C2_Witness ==
    /\ origin.how = "from_parts" /\ appended = <<>> /\ phase = "live"
    /\ origin.index = U64Zero /\ Len(origin.ciphertext) = 128
    /\ SubSeq(inner, 36, 40) = <<16, 0, 34, 128, 1>>

(* C3: on a message built by from_parts, as_payload_bytes returns all       *)
(* bytes but the last 8, before and after append_mac; append_mac leaves     *)
(* the length and every payload byte unchanged and sets the last 8 bytes    *)
(* to the MAC.                                                              *)
C3_PayloadIsFront ==
    (Built /\ last.op = "as_payload_bytes")
        => /\ last.ret.kind = "Ok"
           /\ Len(last.ret.value) = Len(inner) - 8
           /\ \A j \in 1 .. (Len(inner) - 8) : last.ret.value[j] = inner[j]
           /\ last.ret.value \o <<0, 0, 0, 0, 0, 0, 0, 0>> = NormalLayout(origin)

C3_AppendFrame ==
    (Built /\ appended' # appended)
        => /\ Len(inner') = Len(inner)
           /\ \A j \in 1 .. (Len(inner) - 8) : inner'[j] = inner[j]
           /\ Tail8(inner') = last'.arg
           /\ last'.ret.kind = "Ok"

C3_PayloadAndFrame == [](C3_PayloadIsFront) /\ [][C3_AppendFrame]_vars

C3_Witness ==
    /\ origin.how = "from_parts_untyped" /\ last.op = "as_payload_bytes"
    /\ appended = <<TestMac>> /\ Tail8(inner) = TestMac
    /\ origin.index = BitsOf({0}) /\ origin.ciphertext = TestCiphertext
    /\ last.ret.value = <<3, 10, 10>> \o TestRatchetKey \o <<16, 1, 34, 10>>
                            \o TestCiphertext

(* C4 as stated: once append_mac has written the MAC, no operation mutates  *)
(* the buffer again (the buffer is mutated exactly once after               *)
(* construction).                                                           *)
C4_MacWrittenOnce ==
    [][(Built /\ phase = "live" /\ appended # <<>>) => inner' = inner]_vars

(* C4 amended: after construction only append_mac mutates the buffer, and   *)
(* only its last 8 bytes: as_payload_bytes, decode and into_vec leave it    *)
(* as it is, while every append_mac call, a repeated one included,          *)
(* overwrites the last 8 bytes with the MAC it is given.                    *)
C4_OnlyAppendMacMutates ==
    [][(Built /\ phase = "live")
         => /\ (appended' = appended => inner' = inner)
            /\ Front(inner') = Front(inner)
            /\ Len(inner') = Len(inner)
            /\ (appended' # appended => Tail8(inner') = appended'[Len(appended')])]_vars

C4_Witness ==
    /\ origin.how = "from_parts" /\ phase = "live"
    /\ Len(appended) = 2 /\ appended[1] # appended[2]
    /\ Tail8(inner) = appended[2]

(* C5 as stated: decode of any buffer shorter than 10 bytes, whatever its   *)
(* contents, fails with MessageToShort carrying the length.                 *)
C5_LengthFloor ==
    (last.op = "decode" /\ Len(inner) < 10)
        => last.ret = Err("MessageToShort", <<Len(inner)>>)

(* C5 amended: decode of a buffer shorter than 10 bytes always fails: with  *)
(* MissingVersion when it is empty, with InvalidVersion(3, b) when its      *)
(* first byte b is not 3, and with MessageToShort(length) otherwise.        *)
C5_LengthFloorAfterVersion ==
    (last.op = "decode" /\ Len(inner) < 10)
        => last.ret = IF Len(inner) = 0 THEN Err("MissingVersion", <<>>)
                      ELSE IF inner[1] # 3 THEN Err("InvalidVersion", <<3, inner[1]>>)
                      ELSE Err("MessageToShort", <<Len(inner)>>)

C5_Witness ==
    /\ last.op = "decode" /\ Len(inner) = 9 /\ inner[1] = 3
    /\ last.ret = Err("MessageToShort", <<9>>)

\* the bytes OlmMessage::decode hands to the structured decoder
Body(buf) == SubSeq(buf, 2, Len(buf) - 8)

\* what decode returns once the version and length checks have passed, given
\* the decoded body d
AfterLengthCheck(ret, d) ==
    IF ~d.ok THEN ret = Err("ProtoBufError", <<>>)
    ELSE IF Len(d.ratchet_key) # 32
         THEN ret = Err("InvalidKeyLength", <<32, Len(d.ratchet_key)>>)
    ELSE ret.kind = "Ok"

(* C6: OlmMessage::decode returns the error of the first failing check in   *)
(* the order: empty -> MissingVersion; first byte b # 3 -> InvalidVersion   *)
(* (3, b); length n < 10 -> MessageToShort(n); malformed body ->            *)
(* structural error; ratchet key of length l # 32 -> InvalidKeyLength       *)
(* (32, l); Ok only when all pass.                                          *)
C6_ValidationOrder ==
    last.op = "decode"
        => IF Len(inner) = 0 THEN last.ret = Err("MissingVersion", <<>>)
           ELSE IF inner[1] # 3 THEN last.ret = Err("InvalidVersion", <<3, inner[1]>>)
           ELSE IF Len(inner) < 10 THEN last.ret = Err("MessageToShort", <<Len(inner)>>)
           ELSE AfterLengthCheck(last.ret, InnerMessage_decode(Body(inner)))

C6_Witness ==
    /\ last.op = "decode" /\ origin.how = "from"
    /\ inner = <<3, 10, 1, 7, 10, 33>> \o TestMac
    /\ last.ret = Err("ProtoBufError", <<>>)

(* C8: on an OlmMessage wrapped from any raw buffer, decode,                *)
(* as_payload_bytes and append_mac complete with a value or a DecodeError   *)
(* and never fault; PreKeyMessage::decode completes for every raw buffer.   *)
C8_NoFault ==
    /\ phase # "panicked" /\ last.ret.kind # "Panic"
    /\ pkPhase # "panicked" /\ pkLast.ret.kind # "Panic"

\* the body PreKeyMessage::decode hands to the structured decoder
PreKeyBody == InnerPreKeyMessage_decode(SubSeq(pkInner, 2, Len(pkInner)))

PreKeyDecoded ==
    /\ pkLast.op = "decode" /\ Len(pkInner) > 0 /\ pkInner[1] = 3 /\ PreKeyBody.ok

(* C7 as stated: PreKeyMessage::decode checks the key lengths in the order  *)
(* one-time key, base key, identity key and reports the first that is not   *)
(* 32; Ok only if all three are 32 bytes.                                   *)
C7_KeyOrder ==
    PreKeyDecoded
        => IF Len(PreKeyBody.one_time_key) # 32
           THEN pkLast.ret = Err("InvalidKeyLength", <<32, Len(PreKeyBody.one_time_key)>>)
           ELSE IF Len(PreKeyBody.base_key) # 32
           THEN pkLast.ret = Err("InvalidKeyLength", <<32, Len(PreKeyBody.base_key)>>)
           ELSE IF Len(PreKeyBody.identity_key) # 32
           THEN pkLast.ret = Err("InvalidKeyLength", <<32, Len(PreKeyBody.identity_key)>>)
           ELSE pkLast.ret.kind = "Ok"

(* C7 amended: PreKeyMessage::decode checks the key lengths in the order    *)
(* one-time key, identity key, base key and reports the first that is not   *)
(* 32; Ok only if all three are 32 bytes.                                   *)
C7_KeyOrderIdentityBeforeBase ==
    PreKeyDecoded
        => IF Len(PreKeyBody.one_time_key) # 32
           THEN pkLast.ret = Err("InvalidKeyLength", <<32, Len(PreKeyBody.one_time_key)>>)
           ELSE IF Len(PreKeyBody.identity_key) # 32
           THEN pkLast.ret = Err("InvalidKeyLength", <<32, Len(PreKeyBody.identity_key)>>)
           ELSE IF Len(PreKeyBody.base_key) # 32
           THEN pkLast.ret = Err("InvalidKeyLength", <<32, Len(PreKeyBody.base_key)>>)
           ELSE pkLast.ret.kind = "Ok"

C7_Witness ==
    /\ PreKeyDecoded
    /\ Len(PreKeyBody.one_time_key) = 32
    /\ Len(PreKeyBody.base_key) = 31 /\ Len(PreKeyBody.identity_key) = 33
    /\ pkLast.ret = Err("InvalidKeyLength", <<32, 33>>)

(* C9: PreKeyMessage::from_parts on three 32-byte keys and an embedded      *)
(* message m, then decode, returns Ok((one_time_key, base_key,              *)
(* identity_key, m)); the buffer is byte 3 followed by exactly the generic  *)
(* encoding (an empty m omitted) with no trailing bytes.                    *)
C9_PreKeyRoundTrip ==
    pkOrigin.how = "from_parts"
        => /\ pkPhase # "panicked"
           /\ pkInner = <<3>> \o <<10, 32>> \o pkOrigin.one_time_key
                          \o <<18, 32>> \o pkOrigin.base_key
                          \o <<26, 32>> \o pkOrigin.identity_key
                          \o (IF pkOrigin.message = <<>> THEN <<>>
                              ELSE <<34>> \o Varint(FromNat(Len(pkOrigin.message)))
                                       \o pkOrigin.message)
           /\ pkLast.op = "decode"
                => pkLast.ret = Ok(<<pkOrigin.one_time_key, pkOrigin.base_key,
                                     pkOrigin.identity_key, pkOrigin.message>>)

C9_Witness ==
    /\ pkOrigin.how = "from_parts" /\ pkLast.op = "decode"
    /\ pkOrigin.message = <<>> /\ Len(pkInner) = 103
    /\ pkOrigin.base_key # pkOrigin.identity_key
    /\ pkLast.ret.kind = "Ok"

(* C10: encode(v) never indexes past its buffer and returns                 *)
(* n = max(1, ceil(bitlength(v) / 7)) = required_encoded_space_unsigned(v)  *)
(* <= 10 bytes, byte j holding bits 7j .. 7j+6 of v with the high bit set   *)
(* on all bytes but the last; encode(0) is the single byte 0x00.            *)
C10_VarintEncoder ==
    /\ enc.pc # "panic"
    /\ enc.pc = "loop" => enc.i < Len(enc.v)
    /\ enc.pc = "done"
         => /\ Len(enc.v) = MinimalLen(enc.self)
            /\ Len(enc.v) = required_encoded_space_unsigned(enc.self)
            /\ Len(enc.v) <= 10
            /\ \A j \in 0 .. (Len(enc.v) - 1) :
                 /\ enc.v[j + 1] % 128 = SumBits(enc.self, 7 * j, 7)
                 /\ enc.v[j + 1] >= 128 <=> j < Len(enc.v) - 1
            /\ enc.self = U64Zero => enc.v = <<0>>

C10_Witness ==
    /\ enc.pc = "done" /\ enc.self = BitsOf(Bits)
    /\ enc.v = <<255, 255, 255, 255, 255, 255, 255, 255, 255, 1>>

=============================================================================
